---- MODULE Spec2Model ----
(***************************************************************************)
(* nano-banana-cli (src/main.rs): one run of the command-line client.      *)
(*                                                                         *)
(* A run resolves the API key (resolve_api_key / api_key_from_mull), then  *)
(* issues one POST (generate_text / generate_image), then handles the      *)
(* deserialized response, then exits.  Strings that the program takes      *)
(* apart (keys, process output, base64 data) are sequences of one-char     *)
(* strings; text that is only copied (prompts, part texts, paths) is an    *)
(* opaque string, and printed output is a sequence of such fragments.      *)
(***************************************************************************)
EXTENDS Integers, Sequences, FiniteSets, TLC

VARIABLES
    cli,          \* the parsed command line (Cli)
    file,         \* what the output path holds, None when it does not exist
    file_before,  \* what the output path held when the run started
    pc,           \* where main is: "start", "send", "handle", "done"
    api_key,      \* the key resolve_api_key returned, None before or on failure
    mull,         \* the invocations of the secrets command, in order
    posts,        \* the HTTP requests sent, in order
    response,     \* the deserialized Response, None before or on failure
    writes,       \* the calls of fs::write, in order
    stdout,       \* what was printed to standard output
    error,        \* the error main returned, None when none
    exit_code,    \* the exit code, None while running
    steps         \* the steps taken, in order

vars == <<cli, file, file_before, pc, api_key, mull, posts, response, writes,
          stdout, error, exit_code, steps>>

(***************************************************************************)
(* Bounds of the model.                                                    *)
(***************************************************************************)
MaxCandidates == 2
MaxTotalParts == 2

(***************************************************************************)
(* Option<T> and Result<T, E>.                                             *)
(***************************************************************************)
None == [some |-> FALSE]
Some(x) == [some |-> TRUE, val |-> x]
Ok(v) == [ok |-> TRUE, val |-> v]
Err(e) == [ok |-> FALSE, err |-> e]

(***************************************************************************)
(* Program constants.                                                      *)
(***************************************************************************)
TEXT_MODEL == "gemini-2.0-flash"
MULL_SECRET_NAME == "google-ai-studio"
MullArgv == <<"mull", "secrets", "get", MULL_SECRET_NAME>>
DefaultOutput == "output.png"
ImageModels == {"NanoBanana2", "NanoBanana1"}

api_name(model) ==
    CASE model = "NanoBanana2" -> "gemini-3.1-flash-image-preview"
      [] model = "NanoBanana1" -> "gemini-2.0-flash-exp-image-generation"

(***************************************************************************)
(* str::trim and String::from_utf8_lossy, as api_key_from_mull uses them.  *)
(***************************************************************************)
Whitespace == {" ", "\n", "\t", "\r"}
InvalidByte == "\\xFF"
ReplacementChar == "U+FFFD"

FromUtf8Lossy(bytes) ==
    [i \in 1..Len(bytes) |->
        IF bytes[i] = InvalidByte THEN ReplacementChar ELSE bytes[i]]

RECURSIVE TrimStart(_)
TrimStart(s) ==
    IF s # <<>> /\ Head(s) \in Whitespace THEN TrimStart(Tail(s)) ELSE s

RECURSIVE TrimEnd(_)
TrimEnd(s) ==
    IF s # <<>> /\ s[Len(s)] \in Whitespace
    THEN TrimEnd(SubSeq(s, 1, Len(s) - 1))
    ELSE s

TrimStartOnly(s) == TrimStart(s)
Trim(s) == TrimEnd(TrimStart(s))

(***************************************************************************)
(* BASE64_STANDARD.decode: the standard alphabet, canonical padding        *)
(* required, non-zero trailing bits rejected.                              *)
(***************************************************************************)
B64Alphabet ==
    << "A","B","C","D","E","F","G","H","I","J","K","L","M","N","O","P",
       "Q","R","S","T","U","V","W","X","Y","Z","a","b","c","d","e","f",
       "g","h","i","j","k","l","m","n","o","p","q","r","s","t","u","v",
       "w","x","y","z","0","1","2","3","4","5","6","7","8","9","+","/" >>
B64Pad == "="

\* the sextet each symbol of the alphabet stands for
B64Table ==
    [c \in {B64Alphabet[i] : i \in 1..64} |->
        (CHOOSE i \in 1..64 : B64Alphabet[i] = c) - 1]

IsB64Symbol(c) == c \in DOMAIN B64Table
B64Value(c) == B64Table[c]

\* the number of '=' the input ends with
RECURSIVE PadCount(_)
PadCount(s) ==
    IF s # <<>> /\ s[Len(s)] = B64Pad
    THEN 1 + PadCount(SubSeq(s, 1, Len(s) - 1))
    ELSE 0

\* the three bytes of one quantum of four sextets
Quantum(a, b, c, d) ==
    LET n == a * 262144 + b * 4096 + c * 64 + d
    IN  << n \div 65536, (n \div 256) % 256, n % 256 >>

RECURSIVE DecodeQuanta(_)
DecodeQuanta(v) ==
    IF Len(v) < 4 THEN <<>>
    ELSE Quantum(v[1], v[2], v[3], v[4]) \o DecodeQuanta(SubSeq(v, 5, Len(v)))

B64Decode(s) ==
    LET pad  == PadCount(s)
        body == SubSeq(s, 1, Len(s) - pad)
        well == /\ Len(s) % 4 = 0
                /\ pad <= 2
                /\ \A i \in 1..Len(body) : IsB64Symbol(body[i])
        last == B64Value(body[Len(body)])
        tail == CASE pad = 0 -> TRUE
                  [] pad = 1 -> last % 4 = 0
                  [] pad = 2 -> last % 16 = 0
        vals == [i \in 1..Len(s) |->
                    IF i <= Len(body) THEN B64Value(body[i]) ELSE 0]
        all  == DecodeQuanta(vals)
    IN  IF well /\ tail
        THEN Ok(SubSeq(all, 1, Len(all) - pad))
        ELSE Err(<<"DecodeError">>)

(***************************************************************************)
(* The response types (Response, Candidate, CandidateContent,              *)
(* ResponsePart, InlineData) and the responses the server may send.        *)
(***************************************************************************)
InlineData(mime, data) == [mime_type |-> mime, data |-> data]
ResponsePart(text, inline) == [text |-> text, inline_data |-> inline]
Candidate(parts) == [content |-> [parts |-> parts]]
Response(cands) == [candidates |-> cands]

PngData  == <<"i","V","B","O","R","w","0","K","G","g","o","=">>
JpegData == <<"Q","U","I","=">>
BadData  == <<"Q","R","=","=">>

Parts ==
    { ResponsePart(Some("Hello back!"), None),
      ResponsePart(None, Some(InlineData("image/png", PngData))),
      ResponsePart(Some("Bye"), Some(InlineData("image/jpeg", JpegData))),
      ResponsePart(None, Some(InlineData("image/png", BadData))) }

PartLists(n) == UNION { [1..k -> Parts] : k \in 0..n }

\* the lists of exactly c candidates that hold at most n parts in all
RECURSIVE CandidateLists(_, _)
CandidateLists(c, n) ==
    IF c = 0 THEN { <<>> }
    ELSE UNION { { <<Candidate(ps)>> \o rest :
                     rest \in CandidateLists(c - 1, n - Len(ps)) } :
                 ps \in PartLists(n) }

Responses ==
    { Response(cs) :
        cs \in UNION { CandidateLists(c, MaxTotalParts) : c \in 0..MaxCandidates } }

(***************************************************************************)
(* The request types (TextRequest, ImageRequest, ImageGenerationConfig,    *)
(* Content, Part) as the two commands build them, and the request URL.     *)
(***************************************************************************)
Part(text) == [text |-> text]
Content(parts) == [parts |-> parts]

TextRequest(prompt) == [contents |-> << Content(<< Part(prompt) >>) >>]

ImageRequestImageOnly(prompt) ==
    [contents |-> << Content(<< Part(prompt) >>) >>,
     generationConfig |-> [responseModalities |-> << "IMAGE" >>]]

ImageRequest(prompt) ==
    [contents |-> << Content(<< Part(prompt) >>) >>,
     generationConfig |-> [responseModalities |-> << "TEXT", "IMAGE" >>]]

Url(model_id, key) ==
    << "https://generativelanguage.googleapis.com/v1beta/models/",
       model_id, ":generateContent?key=" >> \o key

Post(url, body) ==
    [method |-> "POST", url |-> url,
     headers |-> << <<"Content-Type", "application/json">> >>,
     body |-> body]

(***************************************************************************)
(* The environment: what `mull secrets get` may do, what the transport     *)
(* may return, how fs::write may end.                                      *)
(***************************************************************************)
KeySamples == { <<>>, <<"k">> }
PromptSamples == { "", "Hello" }
StdoutSamples == { <<>>, <<" ", "\n">>, <<" ", "k", "\n">> }
StderrSamples == { <<"d", "e", "n", "i", "e", "d", "\n">>, <<InvalidByte>> }

MullOutcomes ==
    { Err("No such file or directory (os error 2)") }
    \cup { Ok([success |-> FALSE, stdout |-> <<>>, stderr |-> e]) :
             e \in StderrSamples }
    \cup { Ok([success |-> TRUE, stdout |-> o, stderr |-> <<>>]) :
             o \in StdoutSamples }

TransportOutcomes ==
    { Err(<<"http status: 403">>), Err(<<"json: missing field candidates">>) }
    \cup { Ok(r) : r \in Responses }

\* fs::write creates (truncating) the file and then writes all the bytes:
\* it ends well, or fails to create the file, or fails after `written` bytes
FsOutcomes ==
    { [ok |-> TRUE, created |-> TRUE, written |-> 0],
      [ok |-> FALSE, created |-> FALSE, written |-> 0] }
    \cup { [ok |-> FALSE, created |-> TRUE, written |-> k] : k \in 0..1 }

\* the file that fs::write(path, bytes) leaves where `old` was
FsWrite(old, bytes, fs) ==
    IF fs.ok THEN Some(bytes)
    ELSE IF ~fs.created THEN old
    ELSE Some(SubSeq(bytes, 1, IF fs.written < Len(bytes) THEN fs.written ELSE Len(bytes)))

(***************************************************************************)
(* Credential resolution.                                                  *)
(***************************************************************************)
api_key_from_mull(outcome) ==
    IF ~outcome.ok
    THEN Err(<< "Failed to run mull: ", outcome.err >>)
    ELSE IF ~outcome.val.success
    THEN Err(<< "mull secrets failed: " >> \o FromUtf8Lossy(outcome.val.stderr))
    ELSE Ok(Trim(FromUtf8Lossy(outcome.val.stdout)))

\* what follows `resolve_api_key(cli.api_key)?` in main
AfterResolve(result) == IF result.ok THEN "send" ELSE "done"

\* what follows `.send_json(&request)?.body_mut().read_json()?`
AfterSendRetry(result) == IF result.ok THEN "handle" ELSE "send"
AfterSend(result) == IF result.ok THEN "handle" ELSE "done"

(***************************************************************************)
(* Response handling.                                                      *)
(***************************************************************************)
\* generate_text: what is printed for a response
RECURSIVE FirstText(_)
FirstText(parts) ==
    IF parts = <<>> THEN <<>>
    ELSE IF Head(parts).text.some THEN << Head(parts).text.val, "\n" >>
    ELSE FirstText(Tail(parts))

TextPrintedAnyPart(resp) ==
    IF resp.candidates = <<>> THEN <<>>
    ELSE FirstText(resp.candidates[1].content.parts)

TextPrinted(resp) ==
    IF /\ resp.candidates # <<>>
       /\ resp.candidates[1].content.parts # <<>>
       /\ resp.candidates[1].content.parts[1].text.some
    THEN << resp.candidates[1].content.parts[1].text.val, "\n" >>
    ELSE <<>>

\* the order in which generate_image's two loops visit the parts
RECURSIVE AllPartsReversed(_)
AllPartsReversed(cands) ==
    IF cands = <<>> THEN <<>>
    ELSE AllPartsReversed(Tail(cands)) \o Head(cands).content.parts

RECURSIVE AllParts(_)
AllParts(cands) ==
    IF cands = <<>> THEN <<>>
    ELSE Head(cands).content.parts \o AllParts(Tail(cands))

\* the inline data at which the loops stop, if any
RECURSIVE FirstInlineLast(_)
FirstInlineLast(parts) ==
    IF parts = <<>> THEN None
    ELSE IF parts[Len(parts)].inline_data.some THEN parts[Len(parts)].inline_data
    ELSE FirstInlineLast(SubSeq(parts, 1, Len(parts) - 1))

RECURSIVE FirstInlineDecodable(_)
FirstInlineDecodable(parts) ==
    IF parts = <<>> THEN None
    ELSE IF /\ Head(parts).inline_data.some
            /\ B64Decode(Head(parts).inline_data.val.data).ok
    THEN Head(parts).inline_data
    ELSE FirstInlineDecodable(Tail(parts))

RECURSIVE FirstInline(_)
FirstInline(parts) ==
    IF parts = <<>> THEN None
    ELSE IF Head(parts).inline_data.some THEN Head(parts).inline_data
    ELSE FirstInline(Tail(parts))

\* generate_image's loop body for the part found: the result, the bytes
\* handed to fs::write and the lines printed, when fs::write ends as `fs` says
SaveImage(inline_data, output, fs) ==
    LET image_data == B64Decode(inline_data.data)
    IN  IF ~image_data.ok
        THEN [result |-> image_data, write |-> None, printed |-> <<>>]
        ELSE IF ~fs.ok
        THEN [result |-> Err(<< "io error" >>),
              write |-> Some(image_data.val), printed |-> <<>>]
        ELSE [result |-> Ok(<<>>),
              write |-> Some(image_data.val),
              printed |-> << "Image saved to: ", output, "\n",
                             "Mime type: ", inline_data.mime_type, "\n" >>]

\* generate_image after the loops found nothing
NoImageDataSilent == [result |-> Ok(<<>>), write |-> None, printed |-> <<>>]
NoImageData ==
    [result |-> Err(<< "No image data in response" >>),
     write |-> None, printed |-> <<>>]

\* generate_image from the response on
ImageOutcome(resp, output, fs) ==
    LET found == FirstInline(AllParts(resp.candidates))
    IN  IF found.some THEN SaveImage(found.val, output, fs) ELSE NoImageData

(***************************************************************************)
(* The run.                                                                *)
(***************************************************************************)
Commands ==
    { [kind |-> "text", prompt |-> p] : p \in PromptSamples }
    \cup { [kind |-> "image", prompt |-> p, output |-> DefaultOutput, model |-> m] :
             p \in PromptSamples, m \in ImageModels }

OldFile == << 7 >>

Init ==
    /\ cli \in { [api_key |-> k, command |-> c] :
                   k \in { None } \cup { Some(x) : x \in KeySamples },
                   c \in Commands }
    /\ file \in { None, Some(OldFile) }
    /\ file_before = file
    /\ pc = "start"
    /\ api_key = None
    /\ mull = <<>>
    /\ posts = <<>>
    /\ response = None
    /\ writes = <<>>
    /\ stdout = <<>>
    /\ error = None
    /\ exit_code = None
    /\ steps = <<>>

\* main returns `result`: the runtime reports an Err and sets the exit code
Return(result) ==
    /\ pc' = "done"
    /\ exit_code' = Some(IF result.ok THEN 0 ELSE 1)
    /\ error' = IF result.ok THEN error ELSE Some(result.err)

Proceed(next) ==
    /\ pc' = next
    /\ UNCHANGED << exit_code, error >>

Step(next, result) ==
    IF next = "done" THEN Return(result) ELSE Proceed(next)

\* resolve_api_key, an explicit key given
ResolveExplicit ==
    /\ pc = "start"
    /\ cli.api_key.some
    /\ api_key' = cli.api_key
    /\ steps' = Append(steps, "resolve")
    /\ Step(AfterResolve(Ok(cli.api_key.val)), Ok(cli.api_key.val))
    /\ UNCHANGED << cli, file, file_before, mull, posts, response, writes, stdout >>

\* resolve_api_key, no explicit key: api_key_from_mull runs the command
ResolveFromMull ==
    /\ pc = "start"
    /\ ~cli.api_key.some
    /\ \E outcome \in MullOutcomes :
         LET result == api_key_from_mull(outcome)
         IN  /\ mull' = Append(mull, [argv |-> MullArgv, outcome |-> outcome])
             /\ api_key' = IF result.ok THEN Some(result.val) ELSE None
             /\ Step(AfterResolve(result), result)
    /\ steps' = steps \o << "resolve", "mull" >>
    /\ UNCHANGED << cli, file, file_before, posts, response, writes, stdout >>

\* the request of the command being run
RequestOf(command, key) ==
    IF command.kind = "text"
    THEN Post(Url(TEXT_MODEL, key), TextRequest(command.prompt))
    ELSE Post(Url(api_name(command.model), key), ImageRequest(command.prompt))

\* generate_text / generate_image up to the deserialized response
Send ==
    /\ pc = "send"
    /\ api_key.some
    /\ \E outcome \in TransportOutcomes :
         /\ posts' = Append(posts, RequestOf(cli.command, api_key.val))
         /\ response' = IF outcome.ok THEN Some(outcome.val) ELSE None
         /\ Step(AfterSend(outcome), outcome)
    /\ steps' = Append(steps, "post")
    /\ UNCHANGED << cli, file, file_before, api_key, mull, writes, stdout >>

\* generate_text from the response on
HandleText ==
    /\ pc = "handle"
    /\ cli.command.kind = "text"
    /\ stdout' = stdout \o TextPrinted(response.val)
    /\ steps' = Append(steps, "handle")
    /\ Return(Ok(<<>>))
    /\ UNCHANGED << cli, file, file_before, api_key, mull, posts, response, writes >>

\* generate_image from the response on
HandleImage ==
    /\ pc = "handle"
    /\ cli.command.kind = "image"
    /\ \E fs \in FsOutcomes :
         LET out == ImageOutcome(response.val, cli.command.output, fs)
         IN  /\ writes' = IF out.write.some
                          THEN Append(writes, [path |-> cli.command.output,
                                               bytes |-> out.write.val,
                                               ok |-> fs.ok])
                          ELSE writes
             /\ file' = IF out.write.some
                        THEN FsWrite(file, out.write.val, fs)
                        ELSE file
             /\ stdout' = stdout \o out.printed
             /\ steps' = IF out.write.some
                         THEN steps \o << "handle", "write" >>
                         ELSE Append(steps, "handle")
             /\ Return(out.result)
    /\ UNCHANGED << cli, file_before, api_key, mull, posts, response >>

Next ==
    \/ ResolveExplicit
    \/ ResolveFromMull
    \/ Send
    \/ HandleText
    \/ HandleImage

Spec == Init /\ [][Next]_vars

(***************************************************************************)
(* The parts of the response, by position.                                 *)
(***************************************************************************)
Cands == response.val.candidates
Positions ==
    UNION { { <<i, j>> : j \in 1..Len(Cands[i].content.parts) } :
            i \in 1..Len(Cands) }
PartAt(p) == Cands[p[1]].content.parts[p[2]]
Before(p, q) == p[1] < q[1] \/ (p[1] = q[1] /\ p[2] < q[2])
HasInline(p) == PartAt(p).inline_data.some
IsFirstInline(p) ==
    HasInline(p) /\ \A q \in Positions : Before(q, p) => ~HasInline(q)
DataAt(p) == PartAt(p).inline_data.val

ImageHandled == pc = "done" /\ cli.command.kind = "image" /\ response.some
TextHandled == pc = "done" /\ cli.command.kind = "text" /\ response.some

SavedLines(p) ==
    << "Image saved to: ", cli.command.output, "\n",
       "Mime type: ", DataAt(p).mime_type, "\n" >>

PngSignature == << 137, 80, 78, 71, 13, 10, 26, 10 >>

(***************************************************************************)
(* C1: in image mode the part used is the first one with inline data, in   *)
(* the order candidates-then-parts: every write hands fs::write the        *)
(* base64 decoding of that part's data, and a run that succeeds leaves     *)
(* exactly those bytes in the output file and prints that part's mime      *)
(* type, whatever later parts or candidates hold.                          *)
(***************************************************************************)
C1_FirstInlineUsed ==
    ImageHandled =>
      \A p \in Positions : IsFirstInline(p) =>
        LET dec == B64Decode(DataAt(p).data)
        IN  /\ \A k \in 1..Len(writes) :
                 /\ dec.ok
                 /\ writes[k].bytes = dec.val
                 /\ writes[k].path = cli.command.output
            /\ dec.ok => Len(writes) = 1
            /\ exit_code = Some(0) =>
                 /\ dec.ok
                 /\ file = Some(dec.val)
                 /\ stdout = SavedLines(p)

C1_Witness ==
    /\ ImageHandled
    /\ exit_code = Some(0)
    /\ file = Some(PngSignature)
    /\ \E p, q \in Positions :
         /\ IsFirstInline(p)
         /\ Before(p, q)
         /\ HasInline(q)
         /\ DataAt(q) # DataAt(p)

(***************************************************************************)
(* C2: in image mode a response with no candidate, or with no part that    *)
(* carries inline data, ends the run in the error "No image data in        *)
(* response", and the output file is as it was before the run.             *)
(***************************************************************************)
C2_NoImageData ==
    (ImageHandled /\ \A p \in Positions : ~HasInline(p)) =>
      /\ exit_code = Some(1)
      /\ error = Some(<< "No image data in response" >>)
      /\ writes = <<>>
      /\ file = file_before
      /\ stdout = <<>>

C2_Witness ==
    /\ ImageHandled
    /\ Len(Cands) = 2
    /\ Cands[1].content.parts = <<>>
    /\ Len(Cands[2].content.parts) = 1
    /\ PartAt(<<2, 1>>).text.some
    /\ ~HasInline(<<2, 1>>)
    /\ exit_code = Some(1)
    /\ file = None

(***************************************************************************)
(* C10: in image mode fs::write is called at most once, and only with the  *)
(* decoded data of the first inline-data part; when that part's data is    *)
(* not valid base64 the run fails with the file untouched, even when a     *)
(* later part holds valid data; the two lines are printed only after a     *)
(* write that succeeded, and a failed write prints nothing.                *)
(***************************************************************************)
C10_WriteOnceAfterDecode ==
    /\ Len(writes) <= 1
    /\ (writes # <<>> \/ stdout # <<>>) /\ cli.command.kind = "image" =>
         /\ ImageHandled
         /\ \E p \in Positions :
              /\ IsFirstInline(p)
              /\ B64Decode(DataAt(p).data).ok
              /\ Len(writes) = 1
              /\ writes[1].bytes = B64Decode(DataAt(p).data).val
              /\ stdout \in { <<>>, SavedLines(p) }
    /\ stdout # <<>> /\ cli.command.kind = "image" =>
         /\ writes[1].ok
         /\ file = Some(writes[1].bytes)
         /\ exit_code = Some(0)
    /\ (writes # <<>> /\ ~writes[1].ok) =>
         /\ exit_code = Some(1)
         /\ stdout = <<>>
    /\ ImageHandled =>
         \A p \in Positions :
           (IsFirstInline(p) /\ ~B64Decode(DataAt(p).data).ok) =>
             /\ exit_code = Some(1)
             /\ writes = <<>>
             /\ file = file_before
             /\ stdout = <<>>

C10_Witness ==
    /\ ImageHandled
    /\ exit_code = Some(1)
    /\ writes = <<>>
    /\ file = file_before
    /\ stdout = <<>>
    /\ \E p, q \in Positions :
         /\ IsFirstInline(p)
         /\ DataAt(p).data = BadData
         /\ Before(p, q)
         /\ HasInline(q)
         /\ B64Decode(DataAt(q).data).ok

(***************************************************************************)
(* What a run shows of its response: the printed output, the exit code,    *)
(* the error returned and the output file.                                 *)
(***************************************************************************)
ReportOf(result) == IF result.ok THEN None ELSE Some(result.err)

\* the run shows what generate_text shows for `resp`
TextObserved(resp) ==
    /\ stdout = TextPrinted(resp)
    /\ exit_code = Some(0)
    /\ error = None
    /\ file = file_before

\* the run shows what generate_image can show for `resp`
ImageObserved(resp) ==
    \E fs \in FsOutcomes :
      LET out == ImageOutcome(resp, cli.command.output, fs)
      IN  /\ stdout = out.printed
          /\ exit_code = Some(IF out.result.ok THEN 0 ELSE 1)
          /\ error = ReportOf(out.result)
          /\ file = IF out.write.some
                    THEN FsWrite(file_before, out.write.val, fs)
                    ELSE file_before

\* the response cut down to its first candidate
FirstCandidateOnly(resp) ==
    Response(SubSeq(resp.candidates, 1, IF resp.candidates = <<>> THEN 0 ELSE 1))

\* the response cut down to the first part of its first candidate
FirstPartOnly(resp) ==
    IF resp.candidates = <<>> THEN resp
    ELSE LET ps == resp.candidates[1].content.parts
         IN  Response(<< Candidate(SubSeq(ps, 1, IF ps = <<>> THEN 0 ELSE 1)) >>)

\* the response cut off after the part at position p
UpTo(resp, p) ==
    Response([i \in 1..p[1] |->
                IF i < p[1] THEN resp.candidates[i]
                ELSE Candidate(SubSeq(resp.candidates[i].content.parts, 1, p[2]))])

(***************************************************************************)
(* C3, as claimed: in both modes the output is derived from the first      *)
(* candidate alone, so the run shows what it would show for the response   *)
(* cut down to its first candidate.                                        *)
(***************************************************************************)
C3_FirstCandidateOnly ==
    /\ TextHandled => TextObserved(FirstCandidateOnly(response.val))
    /\ ImageHandled => ImageObserved(FirstCandidateOnly(response.val))

(***************************************************************************)
(* C3, as amended: in text mode the output is derived from the first part  *)
(* of the first candidate alone; in image mode it is derived from the      *)
(* response up to its first inline-data part, searched across all the      *)
(* candidates, and from the first candidate alone only when that candidate *)
(* carries an inline-data part.                                            *)
(***************************************************************************)
C3_FirstMatchOnly ==
    /\ TextHandled =>
         /\ TextObserved(FirstCandidateOnly(response.val))
         /\ TextObserved(FirstPartOnly(response.val))
    /\ ImageHandled =>
         /\ \A p \in Positions :
              IsFirstInline(p) => ImageObserved(UpTo(response.val, p))
         /\ (\E p \in Positions : p[1] = 1 /\ HasInline(p)) =>
              ImageObserved(FirstCandidateOnly(response.val))

C3_Witness ==
    /\ ImageHandled
    /\ exit_code = Some(0)
    /\ Len(Cands) = 2
    /\ <<1, 1>> \in Positions /\ HasInline(<<1, 1>>)
    /\ <<2, 1>> \in Positions /\ HasInline(<<2, 1>>)
    /\ DataAt(<<2, 1>>) # DataAt(<<1, 1>>)
    /\ file = Some(B64Decode(DataAt(<<1, 1>>).data).val)

(***************************************************************************)
(* C4: in text mode only the first part of the first candidate is looked   *)
(* at: its text, when it has one, is printed followed by a newline;        *)
(* otherwise nothing is printed; either way the run exits with code 0.     *)
(***************************************************************************)
C4_TextFirstPartOnly ==
    TextHandled =>
      /\ exit_code = Some(0)
      /\ error = None
      /\ writes = <<>>
      /\ file = file_before
      /\ stdout = IF <<1, 1>> \in Positions /\ PartAt(<<1, 1>>).text.some
                  THEN << PartAt(<<1, 1>>).text.val, "\n" >>
                  ELSE <<>>

C4_Witness ==
    /\ TextHandled
    /\ exit_code = Some(0)
    /\ stdout = <<>>
    /\ <<1, 1>> \in Positions
    /\ ~PartAt(<<1, 1>>).text.some
    /\ \E p \in Positions : PartAt(p).text.some

(***************************************************************************)
(* C5: an explicit key is returned unchanged without running the secrets   *)
(* command; without one the command is run exactly once, its trimmed       *)
(* standard output is the key when it exits with zero, and the run fails   *)
(* with an error holding the launch error or the command's standard error  *)
(* otherwise.                                                              *)
(***************************************************************************)
Contains(seq, sub) ==
    \E i \in 0..(Len(seq) - Len(sub)) : SubSeq(seq, i + 1, i + Len(sub)) = sub

\* key is `text` without the whitespace it starts and ends with
IsTrimOf(key, text) ==
    \E i, j \in 0..Len(text) :
      /\ i <= j
      /\ key = SubSeq(text, i + 1, j)
      /\ \A k \in 1..i : text[k] \in Whitespace
      /\ \A k \in (j + 1)..Len(text) : text[k] \in Whitespace
      /\ key # <<>> => key[1] \notin Whitespace /\ key[Len(key)] \notin Whitespace

C5_CredentialResolution ==
    /\ pc = "start" => mull = <<>>
    /\ (pc # "start" /\ cli.api_key.some) =>
         /\ api_key = cli.api_key
         /\ mull = <<>>
    /\ (pc # "start" /\ ~cli.api_key.some) =>
         /\ Len(mull) = 1
         /\ mull[1].argv = << "mull", "secrets", "get", "google-ai-studio" >>
         /\ LET o == mull[1].outcome
            IN  IF ~o.ok
                THEN /\ api_key = None
                     /\ exit_code = Some(1)
                     /\ error.some
                     /\ Contains(error.val, << o.err >>)
                ELSE IF ~o.val.success
                THEN /\ api_key = None
                     /\ exit_code = Some(1)
                     /\ error.some
                     /\ Contains(error.val, FromUtf8Lossy(o.val.stderr))
                ELSE /\ api_key.some
                     /\ IsTrimOf(api_key.val, FromUtf8Lossy(o.val.stdout))

C5_Witness ==
    /\ ~cli.api_key.some
    /\ Len(mull) = 1
    /\ mull[1].outcome.ok
    /\ mull[1].outcome.val.success
    /\ mull[1].outcome.val.stdout = << " ", "k", "\n" >>
    /\ api_key = Some(<< "k" >>)
    /\ Len(posts) = 1

(***************************************************************************)
(* C6, as claimed: the key resolve_api_key returns is never empty, and no  *)
(* request is sent with an empty key.                                      *)
(***************************************************************************)
C6_KeyNeverEmpty ==
    /\ api_key.some => api_key.val # <<>>
    /\ \A k \in 1..Len(posts) : posts[k].url # Url(posts[k].url[2], <<>>)

(***************************************************************************)
(* C7, as claimed: the model id in the image request URL is                *)
(* "gemini-3.1-flash-image" for NanoBanana2 and                            *)
(* "gemini-2.0-flash-exp-image-generation" for NanoBanana1.                *)
(***************************************************************************)
C7_ApiNames ==
    \A k \in 1..Len(posts) :
      cli.command.kind = "image" =>
        posts[k].url[2] =
          IF cli.command.model = "NanoBanana2"
          THEN "gemini-3.1-flash-image"
          ELSE "gemini-2.0-flash-exp-image-generation"

(***************************************************************************)
(* C8: a run calls the secrets command at most once and sends at most one  *)
(* POST, in the order resolve, post, handle, exit; the POST needs a        *)
(* resolved key; a failure at any step ends the run with a non-zero exit   *)
(* code and no later step; exit code 0 needs every step to have succeeded. *)
(***************************************************************************)
IsPrefix(s, t) == Len(s) <= Len(t) /\ s = SubSeq(t, 1, Len(s))

C8_SingleLinearRun ==
    /\ Len(mull) <= 1
    /\ Len(posts) <= 1
    /\ \/ IsPrefix(steps, << "resolve", "mull", "post", "handle", "write" >>)
       \/ IsPrefix(steps, << "resolve", "post", "handle", "write" >>)
    /\ posts # <<>> => api_key.some
    /\ exit_code.some <=> pc = "done"
    /\ exit_code = Some(1) <=> error.some
    /\ (pc # "start" /\ ~api_key.some) =>
         /\ exit_code = Some(1)
         /\ steps = << "resolve", "mull" >>
         /\ posts = <<>> /\ writes = <<>> /\ stdout = <<>>
    /\ (posts # <<>> /\ ~response.some) =>
         /\ exit_code = Some(1)
         /\ steps[Len(steps)] = "post"
         /\ writes = <<>> /\ stdout = <<>>
    /\ exit_code = Some(0) =>
         /\ api_key.some
         /\ Len(posts) = 1
         /\ response.some
         /\ \A k \in 1..Len(writes) : writes[k].ok
         /\ steps[Len(steps)] = IF cli.command.kind = "text" THEN "handle" ELSE "write"

C8_Witness ==
    /\ pc = "done"
    /\ exit_code = Some(1)
    /\ Len(mull) = 1
    /\ Len(posts) = 1
    /\ ~response.some
    /\ steps = << "resolve", "mull", "post" >>

(***************************************************************************)
(* C9: the body sent holds exactly one content with exactly one part whose *)
(* text is the prompt unchanged; in text mode it has no other field, in    *)
(* image mode it also has generationConfig.responseModalities equal to     *)
(* ["TEXT", "IMAGE"].                                                      *)
(***************************************************************************)
C9_RequestBodies ==
    \A k \in 1..Len(posts) :
      LET b == posts[k].body
      IN  /\ Len(b.contents) = 1
          /\ DOMAIN b.contents[1] = { "parts" }
          /\ Len(b.contents[1].parts) = 1
          /\ DOMAIN b.contents[1].parts[1] = { "text" }
          /\ b.contents[1].parts[1].text = cli.command.prompt
          /\ cli.command.kind = "text" => DOMAIN b = { "contents" }
          /\ cli.command.kind = "image" =>
               /\ DOMAIN b = { "contents", "generationConfig" }
               /\ DOMAIN b.generationConfig = { "responseModalities" }
               /\ b.generationConfig.responseModalities = << "TEXT", "IMAGE" >>

C9_Witness ==
    /\ Len(posts) = 1
    /\ cli.command.kind = "image"
    /\ cli.command.prompt = ""
    /\ posts[1].body.contents[1].parts[1].text = ""
    /\ "generationConfig" \in DOMAIN posts[1].body

====
